---- MODULE Spec2Model ----
(***************************************************************************)
(* Workflow engine of backend-challenge: the workflow factory               *)
(* (WorkflowFactory.createWorkflowFromYAML), the dispatcher loop            *)
(* (taskWorker), the task runner with its workflow reconciliation            *)
(* (TaskRunner.run) and the jobs, over the entity store.                    *)
(*                                                                         *)
(* Granularity: one step per awaited store call.  The code between two     *)
(* awaits runs without interruption (single Node.js thread), so it belongs *)
(* to the step of the store call it leads to.  HTTP handlers (the factory) *)
(* interleave with the dispatcher at every await.                          *)
(*                                                                         *)
(* repository.save(entity) writes every property of the entity that is not *)
(* undefined over the stored row (TypeORM updates the columns whose entity *)
(* value differs from the stored one).                                     *)
(***************************************************************************)
EXTENDS Integers, Sequences, FiniteSets, TLC

\* Bound: number of task rows the store may hold over all workflows.  Every
\* workflow has at least one step, so it also bounds the number of workflows.
MaxTasks == 3

\* Bound: number of workflows created (calls of createWorkflowFromYAML).
MaxWorkflows == 2

\* Bound: the readings of the clock (new Date()) are 0..MaxClock.
MaxClock == 1

Workflows == 1..MaxWorkflows

\* ---- enums -------------------------------------------------------------
Queued == "queued"
InProgress == "in_progress"
Completed == "completed"
Failed == "failed"

WfInitial == "initial"
WfInProgress == "in_progress"
WfCompleted == "completed"
WfFailed == "failed"

\* task types of the job registry whose jobs are modelled statement by
\* statement; the workflow definitions are built from these
PolygonArea == "polygonArea"
ReportGeneration == "reportGeneration"
JobTypes == {PolygonArea, ReportGeneration}

\* any other task type of the registry: its job is only known by the Job
\* interface, run(task) returns a value or throws
OtherJobType == "otherJob"
Registry == JobTypes \cup {OtherJobType}

\* ---- serialized values ---------------------------------------------------
\* null / undefined column value
Null == [kind |-> "null"]
\* JSON.stringify({area, unit}) written by PolygonAreaJob on success
AreaOutput == [kind |-> "area"]
\* JSON.stringify({error, message, area: null, unit}) written by PolygonAreaJob on failure
AreaError == [kind |-> "areaError"]
\* JSON.stringify(errorReport) written by ReportGenerationJob on failure: an
\* object with neither a message nor an error field
ErrorReport == [kind |-> "errorReport"]

\* values a job may return besides its structured output: undefined, null,
\* numbers, booleans and strings
Undefined == [kind |-> "undefined"]
ReturnValues ==
    {Null, Undefined}
        \cup [kind : {"number"}, value : {0, 1}]
        \cup [kind : {"boolean"}, value : BOOLEAN]
        \cup [kind : {"string"}, value : {"", "ok"}]
EmptyObject == [kind |-> "object"]

\* the value is falsy: the left operand of || is dropped for it
Falsy(value) ==
    \/ value.kind \in {"null", "undefined"}
    \/ value.kind = "number" /\ value.value = 0
    \/ value.kind = "boolean" /\ ~value.value
    \/ value.kind = "string" /\ value.value = ""

\* JSON.stringify(value): the JSON text of a number, a boolean, a string or the
\* empty object; the text of any other object is denoted by the object
Stringify(value) ==
    CASE value.kind = "number" -> IF value.value = 0 THEN "0" ELSE "1"
      [] value.kind = "boolean" -> IF value.value THEN "true" ELSE "false"
      [] value.kind = "string" -> "\"" \o value.value \o "\""
      [] value.kind = "null" -> "null"
      [] value.kind = "object" -> "{}"
      [] OTHER -> value

\* JSON.stringify(taskResult || {}) with nullish coalescing in place of ||
StringifyOrEmptyIfNullish(taskResult) ==
    Stringify(IF taskResult.kind \in {"null", "undefined"} THEN EmptyObject
              ELSE taskResult)

\* result.data = JSON.stringify(taskResult || {})
ResultData(taskResult) ==
    Stringify(IF Falsy(taskResult) THEN EmptyObject ELSE taskResult)

\* a serialized object whose only field is error
ErrorOnly == [kind |-> "errorOnly"]
\* a string that JSON.parse rejects
NonJsonString == [kind |-> "text"]

\* JSON.parse(output) returns (does not throw)
Parses(output) == output.kind # "text"
\* the parsed output is an object with a message field, with an error field
HasMessage(output) == output.kind = "areaError"
HasError(output) == output.kind \in {"areaError", "errorOnly"}

\* the reconciler's error of a failed task: parsedOutput is the parsed output
\* or the raw string, then
\* parsedOutput?.message || parsedOutput?.error || 'Task failed'
\* ("message" and "error" stand for the values of these fields)
ErrorString(output) ==
    IF HasMessage(output) THEN "message"
    ELSE IF HasError(output) THEN "error"
    ELSE "Task failed"

\* the report job's error of a failed task: the same on the parsed output, but
\* t.output || 'Task failed' in the catch of JSON.parse ("output" stands for
\* the raw string)
ReportErrorString(output) ==
    IF output = Null THEN "Task failed"
    ELSE IF ~Parses(output) THEN "output"
    ELSE IF HasMessage(output) THEN "message"
    ELSE IF HasError(output) THEN "error"
    ELSE "Task failed"

\* what a job may leave in task.output before it throws: a string that is no
\* JSON, or an object with only an error field, with a message field, with
\* neither
FailureOutputs == {NonJsonString, ErrorOnly, AreaError, ErrorReport}

\* ---- geoJson payloads ---------------------------------------------------------
\* JSON.stringify(geoJson) of POST /analysis: a Feature with a Polygon geometry,
\* or a Point geometry
PolygonFeature == "polygonFeature"
PointGeometry == "point"
GeoJsons == {PolygonFeature, PointGeometry}
\* no payload: no call in the slot, or a call that was rejected
NoGeoJson == "none"

\* PolygonAreaJob.extractPolygonFeature returns a feature (does not throw)
extractPolygonFeature(geoJson) == geoJson = PolygonFeature

\* ---- workflow definitions -------------------------------------------------
\* a task type the job registry does not know
UnknownTaskType == "invalidTaskType"

\* A definition is a record of its name (TRUE: present) and its steps array.
\* dependsOn = 0 stands for an absent dependsOn.
StepDef(n) == [taskType : JobTypes, dependsOn : 0..n]

\* the definitions of n steps numbered 1..n in this order, with known task
\* types and a dependsOn, where present, on another step of the definition
DefsOfLen(n) ==
    {[name |-> TRUE,
      steps |-> [i \in 1..n |-> [stepNumber |-> i, taskType |-> d[i].taskType,
                                 dependsOn |-> d[i].dependsOn]]] :
        d \in {e \in [1..n -> StepDef(n)] : \A i \in 1..n : e[i].dependsOn # i}}

\* Bound: number of steps of the definitions that carry a defect.
MaxDefectiveSteps == 2

\* a definition of DefsOfLen with one defect put into step i
DefectsOf(def, i) ==
    LET n == Len(def.steps)
        With(step) == [def EXCEPT !.steps[i] = step]
    IN {With([def.steps[i] EXCEPT !.stepNumber = 0]),
        With([def.steps[i] EXCEPT !.stepNumber = def.steps[(i % n) + 1].stepNumber]),
        With([def.steps[i] EXCEPT !.taskType = UnknownTaskType]),
        With([def.steps[i] EXCEPT !.dependsOn = n + 1]),
        With([def.steps[i] EXCEPT !.dependsOn = def.steps[i].stepNumber])}

\* definitions without a name, without steps, or with a defect in one step;
\* the duplicate of a one-step definition is the definition itself, left out
DefectiveDefinitions ==
    {[name |-> TRUE, steps |-> <<>>], [name |-> FALSE, steps |-> <<>>]}
    \cup UNION {{[def EXCEPT !.name = FALSE]}
                \cup (UNION {DefectsOf(def, i) : i \in 1..Len(def.steps)} \ {def}) :
                    def \in UNION {DefsOfLen(n) : n \in 1..MaxDefectiveSteps}}

\* the workflow files POST /analysis is called with
Definitions ==
    UNION {DefsOfLen(n) : n \in 1..MaxTasks} \cup DefectiveDefinitions

DefinitionsOfLen(n) == {def \in Definitions : Len(def.steps) = n}

\* validateWorkflowDefinition without the self-dependency check
validateWithoutSelfCheck(def) ==
    /\ def.name
    /\ Len(def.steps) > 0
    /\ \A i \in 1..Len(def.steps) :
        LET step == def.steps[i] IN
        /\ step.stepNumber > 0
        /\ \A j \in 1..(i - 1) : def.steps[j].stepNumber # step.stepNumber
        /\ step.taskType \in Registry
        /\ step.dependsOn # 0 =>
              \E j \in 1..Len(def.steps) : def.steps[j].stepNumber = step.dependsOn

\* validateWorkflowDefinition: a name and at least one step; every step with a
\* positive stepNumber no earlier step has, a task type in the registry, and a
\* dependsOn, where present, naming a step of the definition other than itself.
validateWorkflowDefinition(def) ==
    /\ def.name
    /\ Len(def.steps) > 0
    /\ \A i \in 1..Len(def.steps) :
        LET step == def.steps[i] IN
        /\ step.stepNumber > 0
        /\ \A j \in 1..(i - 1) : def.steps[j].stepNumber # step.stepNumber
        /\ step.taskType \in Registry
        /\ step.dependsOn # 0 =>
              /\ \E j \in 1..Len(def.steps) : def.steps[j].stepNumber = step.dependsOn
              /\ step.dependsOn # step.stepNumber

\* the step of a definition with a stepNumber
StepNumbered(def, s) ==
    def.steps[CHOOSE i \in 1..Len(def.steps) : def.steps[i].stepNumber = s]

\* the stepNumbers of a definition
StepNumbers(def) == {def.steps[i].stepNumber : i \in 1..Len(def.steps)}

NoDefinition == [name |-> FALSE, steps |-> <<>>]

VARIABLES
    workflows,       \* Workflow table: workflowId -> row
    tasks,           \* Task table: <<workflowId, stepNumber>> -> row
    results,         \* Result table: sequence of rows, resultId = index
    factory,         \* createWorkflowFromYAML calls: workflowId -> [pc, def]
    pc,              \* taskWorker / TaskRunner.run: next store call
    queuedTasks,     \* taskWorker: the loaded candidates still to walk
    invocations,     \* taskWorker: calls of taskRunner.run since the last load
    now,             \* TaskRunner.run: the last reading of the clock
    task,            \* TaskRunner.run: the task entity in memory
    caughtError,     \* TaskRunner.run: caughtError !== null
    taskResult,      \* TaskRunner.run: value returned by job.run
    currentWorkflow  \* TaskRunner.run: workflow entity loaded with its tasks

vars == <<workflows, tasks, results, factory, pc, queuedTasks, invocations,
          now, task, caughtError, taskResult, currentWorkflow>>

dispatcherVars == <<pc, queuedTasks, invocations, now, task, caughtError,
                    taskResult, currentWorkflow>>

NoTask == [taskId |-> <<0, 0>>]
NoWorkflow == [workflowId |-> 0]

TasksOf(w) == {t \in DOMAIN tasks : t[1] = w}

\* number of steps of the definitions the factory has accepted so far
RECURSIVE StepsOfFirst(_)
StepsOfFirst(w) ==
    IF w = 0 THEN 0 ELSE Len(factory[w].def.steps) + StepsOfFirst(w - 1)

StepsDefined == StepsOfFirst(MaxWorkflows)

Init ==
    /\ workflows = <<>>
    /\ tasks = <<>>
    /\ results = <<>>
    /\ factory = [w \in Workflows |->
                    [pc |-> "idle", def |-> NoDefinition, geoJson |-> NoGeoJson]]
    /\ pc = "load"
    /\ queuedTasks = <<>>
    /\ invocations = 0
    /\ now = 0
    /\ task = NoTask
    /\ caughtError = FALSE
    /\ taskResult = Null
    /\ currentWorkflow = NoWorkflow

\* ---- WorkflowFactory.createWorkflowFromYAML -------------------------------
\* Load and validate the definition: a definition that fails the validation
\* throws before any store call ("rejected"), any other has its Workflow row
\* saved.  w numbers the calls; an accepted call's row gets w as workflowId.
CreateWorkflow(w, def, geoJson) ==
    /\ factory[w].pc = "idle"
    /\ IF w = 1 THEN TRUE ELSE factory[w - 1].pc # "idle"
    /\ IF validateWorkflowDefinition(def)
       THEN /\ workflows' = workflows @@
                    (w :> [status |-> WfInitial, finalResult |-> Null])
            /\ factory' = [factory EXCEPT ![w] =
                    [pc |-> "saveTasks", def |-> def, geoJson |-> geoJson]]
       ELSE /\ factory' = [factory EXCEPT ![w].pc = "rejected"]
            /\ UNCHANGED workflows
    /\ UNCHANGED <<tasks, results, dispatcherVars>>

\* the provisional task of a step: queued, no dependsOn
ProvisionalTask(step, geoJson) ==
    [taskType |-> step.taskType, geoJson |-> geoJson, status |-> Queued,
     progress |-> "null", dependsOn |-> 0, output |-> Null, input |-> Null,
     resultId |-> 0]

\* taskRepository.save(provisionalTasks)
SaveProvisionalTasks(w) ==
    /\ factory[w].pc = "saveTasks"
    /\ LET def == factory[w].def IN
        tasks' = tasks @@ [t \in {<<w, s>> : s \in StepNumbers(def)} |->
                              ProvisionalTask(StepNumbered(def, t[2]),
                                              factory[w].geoJson)]
    /\ factory' = [factory EXCEPT ![w].pc = "saveDependencies"]
    /\ UNCHANGED <<workflows, results, dispatcherVars>>

\* The row after saving the factory's entity of a step over it: the entity's
\* status is still queued, dependsOn is set when the step names one (and
\* stepToTask has it), the other nullable columns are undefined in the entity
\* and stay as stored.
WiredTask(row, step, stepToTask) ==
    [row EXCEPT !.status = Queued,
                !.dependsOn = IF step.dependsOn # 0 /\ step.dependsOn \in stepToTask
                              THEN step.dependsOn ELSE @]

\* taskRepository.save(Array.from(stepToTask.values()))
SaveDependencies(w) ==
    /\ factory[w].pc = "saveDependencies"
    /\ tasks' = [t \in DOMAIN tasks |->
                    IF t[1] = w
                    THEN WiredTask(tasks[t], StepNumbered(factory[w].def, t[2]),
                                   StepNumbers(factory[w].def))
                    ELSE tasks[t]]
    /\ factory' = [factory EXCEPT ![w].pc = "returned"]
    /\ UNCHANGED <<workflows, results, dispatcherVars>>

\* ---- taskWorker --------------------------------------------------------
\* a task entity as taskRepository.find returns it with relations
\* ['workflow', 'dependsOn']: dependsOn = 0 is a null relation, otherwise
\* depStatus is the status of the dependency row at the time of the find
LoadedEntity(t) ==
    [taskId |-> t,
     dependsOn |-> tasks[t].dependsOn,
     depStatus |-> IF tasks[t].dependsOn # 0
                   THEN tasks[<<t[1], tasks[t].dependsOn>>].status
                   ELSE "null"]

\* rows come back in insertion order (workflow by workflow, step by step) and
\* Array.prototype.sort is stable: order by stepNumber, then insertion order
\* Before with workflow affinity: a workflow's steps ahead of the next workflow's
BeforeWithAffinity(a, b) == a[1] < b[1] \/ (a[1] = b[1] /\ a[2] < b[2])

Before(a, b) == a[2] < b[2] \/ (a[2] = b[2] /\ a[1] < b[1])

RECURSIVE SortByStepNumber(_)
SortByStepNumber(S) ==
    IF S = {} THEN <<>>
    ELSE LET first == CHOOSE a \in S : \A b \in S \ {a} : Before(a, b)
         IN <<first>> \o SortByStepNumber(S \ {first})

\* const queuedTasks = await taskRepository.find({where: {status: Queued}, ...})
\* followed by the sort; an empty result goes back to sleep.
LoadQueuedTasks ==
    /\ pc = "load"
    /\ LET queued == {t \in DOMAIN tasks : tasks[t].status = Queued}
           sorted == SortByStepNumber(queued)
       IN /\ queuedTasks' = [i \in 1..Len(sorted) |-> LoadedEntity(sorted[i])]
          /\ pc' = IF queued = {} THEN "load" ELSE "walk"
    /\ UNCHANGED <<workflows, tasks, results, factory, invocations, now,
                   task, caughtError, taskResult, currentWorkflow>>

\* blocked, for a loaded candidate with a dependsOn relation
BlockedByDependency(depStatus) ==
    depStatus \in {Queued, InProgress, Failed}

\* BlockedBySiblings with only the in_progress siblings counted as blockers
BlockedByRunningSiblings(t) ==
    \E b \in TasksOf(t[1]) :
        /\ b[2] < t[2]
        /\ tasks[b].status = InProgress

\* blocked, for a candidate without dependsOn: the siblings are read afresh
BlockedBySiblings(t) ==
    \E b \in TasksOf(t[1]) :
        /\ b[2] < t[2]
        /\ tasks[b].status \in {Queued, InProgress}

Blocked(candidate) ==
    IF candidate.dependsOn # 0
    THEN BlockedByDependency(candidate.depStatus)
    ELSE BlockedBySiblings(candidate.taskId)

\* WalkCandidate leaving the for loop at the first blocked candidate
WalkCandidateStoppingAtBlocked ==
    /\ pc = "walk"
    /\ IF queuedTasks = <<>>
       THEN /\ pc' = "load"
            /\ invocations' = 0
            /\ UNCHANGED <<queuedTasks, task>>
       ELSE LET candidate == Head(queuedTasks) IN
            IF Blocked(candidate)
            THEN /\ queuedTasks' = <<>>
                 /\ UNCHANGED <<pc, invocations, task>>
            ELSE /\ task' = [tasks[candidate.taskId] EXCEPT
                                !.dependsOn = candidate.dependsOn,
                                !.status = InProgress,
                                !.progress = "starting job..."]
                              @@ [taskId |-> candidate.taskId]
                 /\ pc' = "run"
                 /\ invocations' = invocations + 1
                 /\ UNCHANGED queuedTasks
    /\ UNCHANGED <<workflows, tasks, results, factory, now, caughtError,
                   taskResult, currentWorkflow>>

\* One turn of `for (const task of queuedTasks)`: a blocked candidate is
\* skipped; an unblocked one is passed to taskRunner.run, which sets
\* status and progress in memory before its first save.  The end of the list
\* ends the iteration (sleep).
\* The entity is the row as loaded; between the load and this point only the
\* factory's second save can have written the row, and it writes status
\* (queued, as loaded) and dependsOn, so every column but dependsOn is read
\* from the store here.
WalkCandidate ==
    /\ pc = "walk"
    /\ IF queuedTasks = <<>>
       THEN /\ pc' = "load"
            /\ invocations' = 0
            /\ UNCHANGED <<queuedTasks, task>>
       ELSE LET candidate == Head(queuedTasks) IN
            IF Blocked(candidate)
            THEN /\ queuedTasks' = Tail(queuedTasks)
                 /\ UNCHANGED <<pc, invocations, task>>
            ELSE /\ task' = [tasks[candidate.taskId] EXCEPT
                                !.dependsOn = candidate.dependsOn,
                                !.status = InProgress,
                                !.progress = "starting job..."]
                              @@ [taskId |-> candidate.taskId]
                 /\ pc' = "run"
                 /\ invocations' = invocations + 1
                 /\ UNCHANGED queuedTasks
    /\ UNCHANGED <<workflows, tasks, results, factory, now, caughtError,
                   taskResult, currentWorkflow>>

\* the stored row of an entity: every column of the entity
RowOf(entity) ==
    [taskType |-> entity.taskType, geoJson |-> entity.geoJson,
     status |-> entity.status, progress |-> entity.progress,
     dependsOn |-> entity.dependsOn,
     output |-> entity.output, input |-> entity.input,
     resultId |-> entity.resultId]

\* ---- TaskRunner.run ---------------------------------------------------------
\* task.status = InProgress; await this.taskRepository.save(task); then
\* getJobForTaskType(task.taskType), ahead of the try block: for a task type
\* the registry does not know it throws out of run, and taskWorker's catch
\* goes on with the next loaded candidate.
SaveInProgress ==
    /\ pc = "run"
    /\ tasks' = [tasks EXCEPT ![task.taskId] = RowOf(task)]
    /\ IF task.taskType \notin Registry
       THEN /\ pc' = "walk"
            /\ queuedTasks' = Tail(queuedTasks)
            /\ task' = NoTask
       ELSE /\ pc' = IF task.dependsOn # 0 THEN "findDependency" ELSE "job"
            /\ UNCHANGED <<queuedTasks, task>>
    /\ UNCHANGED <<workflows, results, factory, invocations, now,
                   caughtError, taskResult, currentWorkflow>>

\* depTask = await findOne(task.dependsOn.taskId): not completed throws,
\* otherwise its output becomes this task's input
FindDependency ==
    /\ pc = "findDependency"
    /\ LET depTask == tasks[<<task.taskId[1], task.dependsOn>>] IN
        IF depTask.status # Completed
        THEN /\ caughtError' = TRUE
             /\ pc' = "saveFailed"
             /\ UNCHANGED task
        ELSE /\ task' = [task EXCEPT !.input = depTask.output]
             /\ pc' = "job"
             /\ UNCHANGED caughtError
    /\ UNCHANGED <<workflows, tasks, results, factory, queuedTasks,
                   invocations, now, taskResult, currentWorkflow>>

\* PolygonAreaJob.run: the area of the polygon of task.geoJson, or an error
\* envelope in task.output and a throw when geoJson holds no polygon
PolygonAreaJob ==
    /\ pc = "job"
    /\ task.taskType = PolygonArea
    /\ IF extractPolygonFeature(task.geoJson)
        THEN /\ task' = [task EXCEPT !.output = AreaOutput]
             /\ taskResult' = AreaOutput
             /\ pc' = "saveResult"
             /\ UNCHANGED caughtError
        ELSE /\ task' = [task EXCEPT !.output = AreaError]
             /\ caughtError' = TRUE
             /\ pc' = "saveFailed"
             /\ UNCHANGED taskResult
    /\ UNCHANGED <<workflows, tasks, results, factory, queuedTasks,
                   invocations, now, currentWorkflow>>

\* job.run(task) for a job of the registry known by the Job interface only:
\* it returns one of its values, or throws, with or without a write of
\* task.output before the throw
OtherJob ==
    /\ pc = "job"
    /\ task.taskType = OtherJobType
    /\ \/ \E value \in ReturnValues :
            /\ taskResult' = value
            /\ pc' = "saveResult"
            /\ UNCHANGED <<caughtError, task>>
       \/ \E written \in FailureOutputs \cup {task.output} :
            /\ task' = [task EXCEPT !.output = written]
            /\ caughtError' = TRUE
            /\ pc' = "saveFailed"
            /\ UNCHANGED taskResult
    /\ UNCHANGED <<workflows, tasks, results, factory, queuedTasks,
                   invocations, now, currentWorkflow>>

\* the report job's entry for a preceding task
TaskReportEntry(s, row) ==
    [stepNumber |-> s, type |-> row.taskType, status |-> row.status,
     output |-> IF row.status = Completed THEN row.output
                ELSE IF row.status = Failed /\ Parses(row.output) THEN row.output
                ELSE Null,
     error |-> IF row.status = Failed THEN ReportErrorString(row.output)
               ELSE "none"]

\* the steps of a set of task ids in ascending order
RECURSIVE AscendingSteps(_)
AscendingSteps(S) ==
    IF S = {} THEN <<>>
    ELSE LET m == CHOOSE a \in S : \A b \in S : a <= b
         IN <<m>> \o AscendingSteps(S \ {m})

\* ReportGenerationJob.run up to the write of task.output: the tasks of the
\* workflow are read, the preceding ones must all be completed or failed
ReportGenerationJob ==
    /\ pc = "job"
    /\ task.taskType = ReportGeneration
    /\ LET w == task.taskId[1]
           precedingTasks == {t[2] : t \in {u \in TasksOf(w) :
                                 u # task.taskId /\ u[2] < task.taskId[2]}}
           incompleteTasks == {s \in precedingTasks :
                                 tasks[<<w, s>>].status \in {Queued, InProgress}}
           order == AscendingSteps(precedingTasks)
           reportData == [kind |-> "report",
                          tasks |-> [i \in 1..Len(order) |->
                              TaskReportEntry(order[i], tasks[<<w, order[i]>>])],
                          summary |-> [totalTasks |-> Len(order)]]
       IN IF incompleteTasks # {}
          THEN /\ task' = [task EXCEPT !.output = ErrorReport]
               /\ caughtError' = TRUE
               /\ pc' = "saveFailed"
               /\ UNCHANGED taskResult
          ELSE /\ task' = [task EXCEPT !.output = reportData]
               /\ taskResult' = reportData
               /\ pc' = "saveFinalResult"
               /\ UNCHANGED caughtError
    /\ UNCHANGED <<workflows, tasks, results, factory, queuedTasks,
                   invocations, now, currentWorkflow>>

\* ReportGenerationJob.run: workflow.finalResult = JSON.stringify(reportData);
\* await workflowRepository.save(workflow)
SaveFinalResult ==
    /\ pc = "saveFinalResult"
    /\ workflows' = [workflows EXCEPT ![task.taskId[1]].finalResult = task.output]
    /\ pc' = "saveResult"
    /\ UNCHANGED <<tasks, results, factory, queuedTasks, invocations, now,
                   task, caughtError, taskResult, currentWorkflow>>

\* result.data = JSON.stringify(taskResult || {}); await resultRepository.save(result)
SaveResult ==
    /\ pc = "saveResult"
    /\ results' = Append(results, [taskId |-> task.taskId,
                                   data |-> ResultData(taskResult)])
    /\ task' = [task EXCEPT !.resultId = Len(results) + 1]
    /\ pc' = "saveCompleted"
    /\ UNCHANGED <<workflows, tasks, factory, queuedTasks, invocations, now,
                   caughtError, taskResult, currentWorkflow>>

\* SaveCompleted with a save that leaves the stored status as it is
SaveCompletedKeepingStatus ==
    /\ pc = "saveCompleted"
    /\ task' = [task EXCEPT !.status = Completed, !.progress = "null"]
    /\ tasks' = [tasks EXCEPT ![task.taskId] =
                    [RowOf(task') EXCEPT !.status = tasks[task.taskId].status]]
    /\ pc' = "findWorkflow"
    /\ UNCHANGED <<workflows, results, factory, queuedTasks, invocations,
                   now, caughtError, taskResult, currentWorkflow>>

\* task.status = Completed; task.progress = null; save(task)
SaveCompleted ==
    /\ pc = "saveCompleted"
    /\ task' = [task EXCEPT !.status = Completed, !.progress = "null"]
    /\ tasks' = [tasks EXCEPT ![task.taskId] = RowOf(task')]
    /\ pc' = "findWorkflow"
    /\ UNCHANGED <<workflows, results, factory, queuedTasks, invocations,
                   now, caughtError, taskResult, currentWorkflow>>

\* SaveFailed with a save that also clears the output column
SaveFailedClearingOutput ==
    /\ pc = "saveFailed"
    /\ task' = [task EXCEPT !.status = Failed, !.progress = "null",
                            !.output = Null]
    /\ tasks' = [tasks EXCEPT ![task.taskId] = RowOf(task')]
    /\ pc' = "findWorkflow"
    /\ UNCHANGED <<workflows, results, factory, queuedTasks, invocations,
                   now, caughtError, taskResult, currentWorkflow>>

\* catch: task.status = Failed; task.progress = null; save(task)
SaveFailed ==
    /\ pc = "saveFailed"
    /\ task' = [task EXCEPT !.status = Failed, !.progress = "null"]
    /\ tasks' = [tasks EXCEPT ![task.taskId] = RowOf(task')]
    /\ pc' = "findWorkflow"
    /\ UNCHANGED <<workflows, results, factory, queuedTasks, invocations,
                   now, caughtError, taskResult, currentWorkflow>>

\* finally: currentWorkflow = await workflowRepository.findOne({..., relations: ['tasks']})
FindWorkflow ==
    /\ pc = "findWorkflow"
    /\ LET w == task.taskId[1] IN
        currentWorkflow' =
            [workflowId |-> w,
             status |-> workflows[w].status,
             finalResult |-> workflows[w].finalResult,
             tasks |-> [s \in {t[2] : t \in TasksOf(w)} |-> tasks[<<w, s>>]]]
    /\ pc' = "saveWorkflow"
    /\ UNCHANGED <<workflows, tasks, results, factory, queuedTasks,
                   invocations, now, task, caughtError, taskResult>>

\* the reconciler's status from the task rows it read
ReconciledStatus(rows) ==
    LET allCompleted == \A s \in DOMAIN rows : rows[s].status = Completed
        anyFailed == \E s \in DOMAIN rows : rows[s].status = Failed
    IN IF anyFailed THEN WfFailed
       ELSE IF allCompleted THEN WfCompleted
       ELSE WfInProgress

\* ShouldAggregate without the noneActive condition
ShouldAggregateWhenTerminal(rows) ==
    LET allCompleted == \A s \in DOMAIN rows : rows[s].status = Completed
        anyFailed == \E s \in DOMAIN rows : rows[s].status = Failed
    IN allCompleted \/ anyFailed

\* the reconciler aggregates only when no task is queued or in progress
ShouldAggregate(rows) ==
    LET allCompleted == \A s \in DOMAIN rows : rows[s].status = Completed
        anyFailed == \E s \in DOMAIN rows : rows[s].status = Failed
        noneActive == \A s \in DOMAIN rows : rows[s].status \in {Completed, Failed}
    IN noneActive /\ (allCompleted \/ anyFailed)

\* the reconciler's entry for a task
AggregatedEntry(s, row) ==
    [stepNumber |-> s, type |-> row.taskType, status |-> row.status,
     output |-> IF row.status = Completed THEN row.output ELSE Null,
     error |-> IF row.status = Failed THEN ErrorString(row.output) ELSE "none"]

\* finalPayload: the tasks sorted by stepNumber under the new status, and
\* generatedAt: new Date().toISOString()
FinalPayload(rows, instant) ==
    LET order == AscendingSteps(DOMAIN rows) IN
    [kind |-> "aggregate",
     status |-> ReconciledStatus(rows),
     tasks |-> [i \in 1..Len(order) |-> AggregatedEntry(order[i], rows[order[i]])],
     generatedAt |-> instant]

\* the workflow row the reconciler saves for the workflow entity it loaded,
\* when the clock reads instant
Reconciled(workflow, instant) ==
    [status |-> ReconciledStatus(workflow.tasks),
     finalResult |-> IF ShouldAggregate(workflow.tasks)
                     THEN FinalPayload(workflow.tasks, instant)
                     ELSE workflow.finalResult]

\* the clock does not go back: a reading is the last one or a later one
ReadsClock(instant) ==
    /\ instant \in now..MaxClock
    /\ now' = IF ShouldAggregate(currentWorkflow.tasks) THEN instant ELSE now

\* SaveWorkflow with a rethrown error that nothing catches: the loop ends
SaveWorkflowThenCrash ==
    /\ pc = "saveWorkflow"
    /\ \E instant \in 0..MaxClock :
        /\ ReadsClock(instant)
        /\ workflows' = [workflows EXCEPT ![currentWorkflow.workflowId] =
                            Reconciled(currentWorkflow, instant)]
    /\ IF caughtError
       THEN /\ queuedTasks' = <<>>
            /\ pc' = "crashed"
            /\ UNCHANGED invocations
       ELSE /\ queuedTasks' = <<>>
            /\ pc' = "load"
            /\ invocations' = 0
    /\ task' = NoTask
    /\ caughtError' = FALSE
    /\ taskResult' = Null
    /\ currentWorkflow' = NoWorkflow
    /\ UNCHANGED <<tasks, results, factory>>

\* await workflowRepository.save(currentWorkflow), then run returns or
\* rethrows: a throw is caught by taskWorker, which goes on with the next
\* loaded candidate; a normal return breaks out of the loop (sleep).
SaveWorkflow ==
    /\ pc = "saveWorkflow"
    /\ \E instant \in 0..MaxClock :
        /\ ReadsClock(instant)
        /\ workflows' = [workflows EXCEPT ![currentWorkflow.workflowId] =
                            Reconciled(currentWorkflow, instant)]
    /\ IF caughtError
       THEN /\ queuedTasks' = Tail(queuedTasks)
            /\ pc' = "walk"
            /\ UNCHANGED invocations
       ELSE /\ queuedTasks' = <<>>
            /\ pc' = "load"
            /\ invocations' = 0
    /\ task' = NoTask
    /\ caughtError' = FALSE
    /\ taskResult' = Null
    /\ currentWorkflow' = NoWorkflow
    /\ UNCHANGED <<tasks, results, factory>>

\* POST /analysis: a call of createWorkflowFromYAML with some definition
PostAnalysis ==
    \E w \in Workflows :
        /\ factory[w].pc = "idle"
        /\ \E n \in 0..MaxTasks :
              /\ n + StepsDefined <= MaxTasks
              /\ \E def \in DefinitionsOfLen(n), geoJson \in GeoJsons :
                    CreateWorkflow(w, def, geoJson)

\* ---- GET /workflow/:id/results ------------------------------------------------
\* the reportGeneration tasks of a workflow
ReportTasks(w) == {t \in TasksOf(w) : tasks[t].taskType = ReportGeneration}

\* GetResults answering 200 for a failed workflow as well
GetResultsWhenTerminal(w) ==
    IF w \notin DOMAIN workflows
    THEN {[status |-> 404]}
    ELSE IF workflows[w].status \notin {WfCompleted, WfFailed}
    THEN {[status |-> 400, workflowStatus |-> workflows[w].status]}
    ELSE {[status |-> 200, finalResult |-> workflows[w].finalResult]}

\* GetResults without the fallback to workflow.finalResult
GetResultsWithoutFallback(w) ==
    IF w \notin DOMAIN workflows
    THEN {[status |-> 404]}
    ELSE IF workflows[w].status # WfCompleted
    THEN {[status |-> 400, workflowStatus |-> workflows[w].status]}
    ELSE IF ReportTasks(w) = {}
    THEN {[status |-> 200, finalResult |-> Null]}
    ELSE {[status |-> 200, finalResult |-> tasks[reportTask].output] :
              reportTask \in ReportTasks(w)}

\* GetResults answering with workflow.finalResult whatever the tasks are
GetStoredFinalResult(w) ==
    IF w \notin DOMAIN workflows
    THEN {[status |-> 404]}
    ELSE IF workflows[w].status # WfCompleted
    THEN {[status |-> 400, workflowStatus |-> workflows[w].status]}
    ELSE {[status |-> 200, finalResult |-> workflows[w].finalResult]}

\* The responses the handler can give in the current state of the store: 404
\* for no row, 400 unless the status is completed, else 200 with the output
\* of the reportGeneration task that workflow.tasks.find comes upon first (the
\* relation is loaded without an order: any of them) and, where there is none
\* or it has no output, with workflow.finalResult.
GetResults(w) ==
    IF w \notin DOMAIN workflows
    THEN {[status |-> 404]}
    ELSE IF workflows[w].status # WfCompleted
    THEN {[status |-> 400, workflowStatus |-> workflows[w].status]}
    ELSE IF ReportTasks(w) = {}
    THEN {[status |-> 200, finalResult |-> workflows[w].finalResult]}
    ELSE {[status |-> 200,
           finalResult |-> IF tasks[reportTask].output # Null
                           THEN tasks[reportTask].output
                           ELSE workflows[w].finalResult] :
              reportTask \in ReportTasks(w)}

\* POST /analysis: the response to a call with a definition: 202 when the
\* factory returns, 400 when it throws an error whose message starts with
\* 'Invalid workflow:'
PostAnalysisResponse(def) ==
    IF validateWorkflowDefinition(def)
    THEN [status |-> 202, message |-> "Workflow created and tasks queued"]
    ELSE [status |-> 400, message |-> "Invalid workflow:"]

Next ==
    \/ PostAnalysis
    \/ \E w \in Workflows : SaveProvisionalTasks(w)
    \/ \E w \in Workflows : SaveDependencies(w)
    \/ LoadQueuedTasks
    \/ WalkCandidate
    \/ SaveInProgress
    \/ FindDependency
    \/ PolygonAreaJob
    \/ ReportGenerationJob
    \/ SaveFinalResult
    \/ SaveResult
    \/ SaveCompleted
    \/ SaveFailed
    \/ FindWorkflow
    \/ SaveWorkflow

Spec == Init /\ [][Next]_vars

\* every store call and loop turn of the dispatcher (taskWorker and the
\* TaskRunner.run it awaits)
DispatcherStep ==
    \/ LoadQueuedTasks
    \/ WalkCandidate
    \/ SaveInProgress
    \/ FindDependency
    \/ PolygonAreaJob
    \/ ReportGenerationJob
    \/ SaveFinalResult
    \/ SaveResult
    \/ SaveCompleted
    \/ SaveFailed
    \/ FindWorkflow
    \/ SaveWorkflow

\* The dispatcher loop runs for the lifetime of the process, store calls and
\* jobs return, and a started createWorkflowFromYAML call runs to its end.
FairSpec ==
    /\ Spec
    /\ WF_vars(DispatcherStep)
    /\ \A w \in Workflows : WF_vars(SaveProvisionalTasks(w))
    /\ \A w \in Workflows : WF_vars(SaveDependencies(w))

\* Bound: number of task rows under LiveSpec.
MaxLiveTasks == 2

\* POST /analysis while the definitions accepted so far, the new one
\* included, have at most MaxLiveTasks steps
PostSmallAnalysis ==
    /\ PostAnalysis
    /\ StepsDefined' <= MaxLiveTasks

LiveNext ==
    \/ PostSmallAnalysis
    \/ \E w \in Workflows : SaveProvisionalTasks(w)
    \/ \E w \in Workflows : SaveDependencies(w)
    \/ DispatcherStep

\* FairSpec over the smaller store
LiveSpec ==
    /\ Init
    /\ [][LiveNext]_vars
    /\ WF_vars(DispatcherStep)
    /\ \A w \in Workflows : WF_vars(SaveProvisionalTasks(w))
    /\ \A w \in Workflows : WF_vars(SaveDependencies(w))

\* ---- TaskRunner.run over any stored task ------------------------------------
\* the definitions of one or two steps, in the order of their stepNumbers, whose
\* task types need not be in the registry the runner looks them up in
AnyTypeDefinitions ==
    UNION {{[name |-> TRUE,
             steps |-> [i \in 1..n |-> [stepNumber |-> i, taskType |-> d[i].taskType,
                                        dependsOn |-> d[i].dependsOn]]] :
                d \in {e \in [1..n -> [taskType : JobTypes \cup {UnknownTaskType},
                                       dependsOn : 0..n]] :
                          \A i \in 1..n : e[i].dependsOn # i}} :
           n \in 1..MaxLiveTasks}

\* the store holds one workflow as createWorkflowFromYAML leaves it, the
\* dispatcher starts its loop
RunnerInit ==
    /\ \E def \in AnyTypeDefinitions, geoJson \in GeoJsons :
          /\ factory = [w \in Workflows |->
                          IF w = 1
                          THEN [pc |-> "returned", def |-> def, geoJson |-> geoJson]
                          ELSE [pc |-> "idle", def |-> NoDefinition,
                                geoJson |-> NoGeoJson]]
          /\ tasks = [t \in {<<1, s>> : s \in StepNumbers(def)} |->
                        WiredTask(ProvisionalTask(StepNumbered(def, t[2]), geoJson),
                                  StepNumbered(def, t[2]), StepNumbers(def))]
    /\ workflows = (1 :> [status |-> WfInitial, finalResult |-> Null])
    /\ results = <<>>
    /\ pc = "load"
    /\ queuedTasks = <<>>
    /\ invocations = 0
    /\ now = 0
    /\ task = NoTask
    /\ caughtError = FALSE
    /\ taskResult = Null
    /\ currentWorkflow = NoWorkflow

RunnerSpec == RunnerInit /\ [][DispatcherStep]_vars

\* ---- TaskRunner.run with any job of the Job interface ---------------------------
\* the definitions of one or two steps, in the order of their stepNumbers, over
\* the whole registry
RegistryDefinitions ==
    UNION {{[name |-> TRUE,
             steps |-> [i \in 1..n |-> [stepNumber |-> i, taskType |-> d[i].taskType,
                                        dependsOn |-> d[i].dependsOn]]] :
                d \in {e \in [1..n -> [taskType : Registry, dependsOn : 0..n]] :
                          \A i \in 1..n : e[i].dependsOn # i}} :
           n \in 1..MaxLiveTasks}

\* the store holds one workflow as createWorkflowFromYAML leaves it, the
\* dispatcher starts its loop
JobInit ==
    /\ \E def \in RegistryDefinitions, geoJson \in GeoJsons :
          /\ factory = [w \in Workflows |->
                          IF w = 1
                          THEN [pc |-> "returned", def |-> def, geoJson |-> geoJson]
                          ELSE [pc |-> "idle", def |-> NoDefinition,
                                geoJson |-> NoGeoJson]]
          /\ tasks = [t \in {<<1, s>> : s \in StepNumbers(def)} |->
                        WiredTask(ProvisionalTask(StepNumbered(def, t[2]), geoJson),
                                  StepNumbered(def, t[2]), StepNumbers(def))]
    /\ workflows = (1 :> [status |-> WfInitial, finalResult |-> Null])
    /\ results = <<>>
    /\ pc = "load"
    /\ queuedTasks = <<>>
    /\ invocations = 0
    /\ now = 0
    /\ task = NoTask
    /\ caughtError = FALSE
    /\ taskResult = Null
    /\ currentWorkflow = NoWorkflow

JobNext == DispatcherStep \/ OtherJob

JobSpec == JobInit /\ [][JobNext]_vars

\* ---- two workflows, one of which can block for good ---------------------------
\* Bound: number of steps of each definition under IsolationSpec.
MaxIsolatedSteps == 2

\* the definitions of MaxIsolatedSteps polygonArea steps in which a step waits
\* for another one: a dependent of a step that may fail, or steps that wait
\* for each other
DependentDefinitions ==
    {def \in DefsOfLen(MaxIsolatedSteps) :
        /\ \A i \in 1..MaxIsolatedSteps : def.steps[i].taskType = PolygonArea
        /\ \E i \in 1..MaxIsolatedSteps : def.steps[i].dependsOn # 0}

\* the definitions of MaxIsolatedSteps steps that end with the report of the
\* polygonArea steps before it
ReportingDefinitions ==
    {def \in DefsOfLen(MaxIsolatedSteps) :
        \A i \in 1..MaxIsolatedSteps :
            def.steps[i].taskType = IF i = MaxIsolatedSteps
                                    THEN ReportGeneration ELSE PolygonArea}

\* POST /analysis with a definition of DependentDefinitions and, once that
\* call has returned, POST /analysis with a definition of ReportingDefinitions
PostIsolatedAnalysis ==
    \E w \in Workflows :
        /\ factory[w].pc = "idle"
        /\ w > 1 => factory[w - 1].pc = "returned"
        /\ \E def \in (IF w = 1 THEN DependentDefinitions
                       ELSE ReportingDefinitions),
              geoJson \in GeoJsons :
                 CreateWorkflow(w, def, geoJson)

IsolationNext ==
    \/ PostIsolatedAnalysis
    \/ \E w \in Workflows : SaveProvisionalTasks(w)
    \/ \E w \in Workflows : SaveDependencies(w)
    \/ DispatcherStep

\* the fairness of FairSpec over these calls of POST /analysis
IsolationSpec ==
    /\ Init
    /\ [][IsolationNext]_vars
    /\ WF_vars(DispatcherStep)
    /\ \A w \in Workflows : WF_vars(SaveProvisionalTasks(w))
    /\ \A w \in Workflows : WF_vars(SaveDependencies(w))

\* ---- properties ---------------------------------------------------------
Terminal(status) == status \in {WfCompleted, WfFailed}

\* taskRunner.run(task) has been called and has not yet returned or thrown
Running == pc \notin {"load", "walk"}

\* the dispatcher has just called taskRunner.run(task)
HandedToRunner == pc = "run"

\* C1: whenever the dispatcher hands a task T to the runner and T's stored row
\* has dependsOn = D, D has status completed (never queued, in_progress or
\* failed); and every task that has left queued and has a dependsOn has a
\* completed dependency.
C1_DependencyGating ==
    /\ HandedToRunner =>
          LET t == task.taskId IN
          tasks[t].dependsOn # 0 =>
              tasks[<<t[1], tasks[t].dependsOn>>].status = Completed
    /\ \A t \in DOMAIN tasks :
          (tasks[t].status # Queued /\ tasks[t].dependsOn # 0) =>
              tasks[<<t[1], tasks[t].dependsOn>>].status = Completed

\* some sibling of t with a strictly smaller stepNumber is queued or in progress
EarlierSiblingPending(t) ==
    \E b \in TasksOf(t[1]) :
        b[2] < t[2] /\ tasks[b].status \in {Queued, InProgress}

\* the dispatcher calls taskRunner.run in this step
StartsRunner == pc = "walk" /\ pc' = "run"

\* C2 (as stated): the dispatcher never starts the runner on a task, with or
\* without a dependsOn edge, while an earlier-step sibling of the same workflow
\* is queued or in progress.
C2_OrderingAnyTask ==
    [][StartsRunner => ~EarlierSiblingPending(task'.taskId)]_vars

\* C2 (amended): the dispatcher never starts the runner on a task loaded
\* without a dependsOn edge while an earlier-step sibling of the same workflow
\* is queued or in progress; a task loaded with a dependsOn edge is started only
\* when the loaded status of its dependency is completed.
C2_OrderingWithoutDependsOn ==
    [][StartsRunner =>
          IF task'.dependsOn = 0
          THEN ~EarlierSiblingPending(task'.taskId)
          ELSE Head(queuedTasks).depStatus = Completed]_vars

\* C2 witness: a task without a dependsOn edge is running after an earlier
\* sibling finished, and a task with a dependsOn edge is running while an
\* earlier sibling (not its dependency) is still queued.
C2_Witness ==
    /\ pc = "job"
    /\ task.dependsOn # 0
    /\ task.status = InProgress
    /\ tasks[task.taskId].dependsOn = task.dependsOn
    /\ \E b \in TasksOf(task.taskId[1]) :
          b[2] < task.taskId[2] /\ tasks[b].status = Queued
    /\ \E c \in DOMAIN tasks :
          /\ tasks[c].dependsOn = 0
          /\ tasks[c].status = Completed
          /\ c[2] > 1

\* C3: the stored status of a task changes only queued -> in_progress ->
\* completed | failed, and only in a step of the runner.
C3_TaskLifecycle ==
    [][\A t \in DOMAIN tasks :
          tasks'[t].status # tasks[t].status =>
              /\ Running
              /\ task.taskId = t
              /\ \/ tasks[t].status = Queued /\ tasks'[t].status = InProgress
                 \/ tasks[t].status = InProgress
                      /\ tasks'[t].status \in {Completed, Failed}]_vars

\* C4: at every observation point a workflow is failed iff one of its tasks
\* is failed.
C4_FailedIffTaskFailed ==
    \A w \in DOMAIN workflows :
        workflows[w].status = WfFailed
            <=> \E t \in TasksOf(w) : tasks[t].status = Failed

\* C5: a completed workflow has only completed tasks.
C5_CompletedImpliesAllCompleted ==
    \A w \in DOMAIN workflows :
        workflows[w].status = WfCompleted =>
            \A t \in TasksOf(w) : tasks[t].status = Completed

\* nothing is left to do: every creation has returned, the dispatcher is
\* between iterations and every queued task is blocked as a fresh load shows
\* it; from here the loop loads, skips every candidate and sleeps, for ever
Idle ==
    /\ pc = "load"
    /\ \A w \in Workflows : factory[w].pc \in {"idle", "rejected", "returned"}
    /\ \A t \in DOMAIN tasks :
          tasks[t].status = Queued => Blocked(LoadedEntity(t))

\* C6: every created workflow eventually becomes completed or failed; stated
\* on the states the fair dispatcher cannot leave: when nothing is left to do,
\* every workflow is completed or failed.
C6_TerminalWhenIdle ==
    Idle => \A w \in DOMAIN workflows : Terminal(workflows[w].status)

\* C7: a task whose dependency is failed stays queued and is never handed to
\* the runner, and once no run is under way a workflow with a failed task is
\* failed.
C7_FailedDependency ==
    /\ \A t \in DOMAIN tasks :
          (tasks[t].dependsOn # 0
             /\ tasks[<<t[1], tasks[t].dependsOn>>].status = Failed) =>
                /\ tasks[t].status = Queued
                /\ ~(Running /\ task.taskId = t)
    /\ ~Running =>
          \A w \in DOMAIN workflows :
              (\E t \in TasksOf(w) : tasks[t].status = Failed) =>
                  workflows[w].status = WfFailed

\* the stepNumber/status pairs a finalResult lists, in its order
ListedStatuses(finalResult) ==
    [i \in 1..Len(finalResult.tasks) |->
        <<finalResult.tasks[i].stepNumber, finalResult.tasks[i].status>>]

\* the stepNumber/status pairs of the stored tasks of w, by ascending stepNumber
StoredStatuses(w) ==
    LET order == AscendingSteps({t[2] : t \in TasksOf(w)}) IN
    [i \in 1..Len(order) |-> <<order[i], tasks[<<w, order[i]>>].status>>]

\* C8: a workflow in a terminal status has a finalResult whose tasks array
\* lists every task of the workflow in ascending stepNumber order with its
\* current status, failed tasks with their error string.
C8_FinalResultListsAllTasks ==
    \A w \in DOMAIN workflows :
        Terminal(workflows[w].status) =>
            /\ workflows[w].finalResult # Null
            /\ ListedStatuses(workflows[w].finalResult) = StoredStatuses(w)
            /\ \A i \in 1..Len(workflows[w].finalResult.tasks) :
                  LET e == workflows[w].finalResult.tasks[i] IN
                  e.status = Failed =>
                      e.error = ErrorString(tasks[<<w, e.stepNumber>>].output)

\* C10: a workflow whose finalResult is set is completed or failed.
C10_FinalResultOnlyWhenTerminal ==
    \A w \in DOMAIN workflows :
        workflows[w].finalResult # Null => Terminal(workflows[w].status)

ForwardDependency(def) ==
    \E i \in 1..Len(def.steps) :
        /\ def.steps[i].dependsOn # 0
        /\ def.steps[i].dependsOn >= def.steps[i].stepNumber

\* C11: every stored task with a dependsOn references a stored task of the
\* same workflow with a strictly smaller stepNumber, and no workflow is created
\* from a definition with a forward or cyclic dependency.
C11_DependsOnSmallerStep ==
    /\ \A t \in DOMAIN tasks :
          tasks[t].dependsOn # 0 =>
              /\ <<t[1], tasks[t].dependsOn>> \in DOMAIN tasks
              /\ tasks[t].dependsOn < t[2]
    /\ \A w \in DOMAIN workflows : ~ForwardDependency(factory[w].def)

\* the defects C12 lists: no steps or no name, a non-positive or duplicate
\* stepNumber, an unknown taskType, a dependsOn naming a step that does not
\* exist, a self-dependency
Defective(def) ==
    LET n == Len(def.steps) IN
    \/ n = 0
    \/ ~def.name
    \/ \E i \in 1..n : def.steps[i].stepNumber <= 0
    \/ \E i, j \in 1..n : i # j /\ def.steps[i].stepNumber = def.steps[j].stepNumber
    \/ \E i \in 1..n : def.steps[i].taskType = UnknownTaskType
    \/ \E i \in 1..n :
          /\ def.steps[i].dependsOn # 0
          /\ \A j \in 1..n : def.steps[j].stepNumber # def.steps[i].dependsOn
    \/ \E i \in 1..n : def.steps[i].dependsOn = def.steps[i].stepNumber

\* C12: a definition with one of the listed defects is answered with 400 and a
\* message starting with 'Invalid workflow:'; no Workflow or Task row stems
\* from such a definition; and the step in which a call is rejected leaves the
\* Workflow, Task and Result tables as they are.
C12_ValidationAtomic ==
    /\ \A def \in Definitions :
          Defective(def) =>
              PostAnalysisResponse(def) =
                  [status |-> 400, message |-> "Invalid workflow:"]
    /\ [](\A w \in Workflows :
            (w \in DOMAIN workflows \/ TasksOf(w) # {}) =>
                ~Defective(factory[w].def))
    /\ [][\A w \in Workflows :
            (factory[w].pc = "idle" /\ factory'[w].pc = "rejected") =>
                UNCHANGED <<workflows, tasks, results>>]_vars

\* C12 witness: a call was rejected after another call had created a workflow
\* with its tasks; the rejected call has no row.
C12_Witness ==
    /\ factory[1].pc = "returned"
    /\ factory[2].pc = "rejected"
    /\ DOMAIN workflows = {1}
    /\ TasksOf(1) # {}
    /\ TasksOf(2) = {}

\* C13: a task with a dependsOn has, when the runner invokes its job and in its
\* stored row once it is completed, an input equal to the stored output of its
\* (completed) dependency; a task without dependsOn has no input.
C13_InputThreading ==
    /\ \A t \in DOMAIN tasks :
          IF tasks[t].dependsOn # 0
          THEN tasks[t].status = Completed =>
                  tasks[t].input = tasks[<<t[1], tasks[t].dependsOn>>].output
          ELSE tasks[t].input = Null
    /\ (pc = "job" /\ tasks[task.taskId].dependsOn # 0) =>
          LET depTask == tasks[<<task.taskId[1], tasks[task.taskId].dependsOn>>] IN
          /\ depTask.status = Completed
          /\ task.input = depTask.output

\* the stored tasks with status in_progress
InProgressTasks == {t \in DOMAIN tasks : tasks[t].status = InProgress}

\* C14: across all workflows at most one task has status in_progress.
C14_AtMostOneInProgress == Cardinality(InProgressTasks) <= 1

\* C14 witness: a task is in progress after another task was run to its end,
\* while a task of another workflow is queued and not blocked.
C14_Witness ==
    /\ Cardinality(InProgressTasks) = 1
    /\ Running
    /\ tasks[task.taskId].status = InProgress
    /\ \E d \in DOMAIN tasks : tasks[d].status \in {Completed, Failed}
    /\ \E q \in DOMAIN tasks :
          /\ q[1] # task.taskId[1]
          /\ tasks[q].status = Queued
          /\ ~Blocked(LoadedEntity(q))

\* the ids a task row can have
TaskIds == Workflows \X (1..MaxTasks)

\* a run has thrown: some task is stored as failed
SomeRunThrew == \E f \in DOMAIN tasks : tasks[f].status = Failed

\* t is stored queued, its workflow's creation has returned, and the
\* dispatcher's test on a fresh load does not find it blocked
QueuedUnblocked(t) ==
    /\ t \in DOMAIN tasks
    /\ factory[t[1]].pc = "returned"
    /\ tasks[t].status = Queued
    /\ ~Blocked(LoadedEntity(t))

\* C15: after a run in which the job threw, the dispatcher keeps iterating:
\* every task that is then queued and unblocked is eventually in the hands of
\* the runner.
C15_FailureDoesNotStopDispatcher ==
    \A t \in TaskIds :
        (SomeRunThrew /\ QueuedUnblocked(t)) ~> (Running /\ task.taskId = t)

\* C15 witness: a run has thrown and the dispatcher hands a further task to
\* the runner.
C15_Witness ==
    /\ HandedToRunner
    /\ SomeRunThrew
    /\ factory[task.taskId[1]].pc = "returned"
    /\ tasks[task.taskId].status = Queued

\* taskRunner.run(task) returns or throws in this step
RunEnds == Running /\ ~Running'

\* run ends with an error: one caught by its try block, or the registry miss
\* ahead of it
EndsWithError == caughtError \/ task.taskType \notin Registry

\* C16: when run returns or throws the task is not stored as in_progress, and
\* it is stored as failed whenever run ends with an error, whichever it is.
C16_ErrorsFailTheTask ==
    [][RunEnds =>
          /\ tasks'[task.taskId].status # InProgress
          /\ EndsWithError => tasks'[task.taskId].status = Failed]_vars

ResultsOf(t) == {i \in 1..Len(results) : results[i].taskId = t}

\* C18: a task has a resultId iff it is completed, and it has exactly one
\* Result row when it is completed and none otherwise.
C18_ResultIffCompleted ==
    \A t \in DOMAIN tasks :
        /\ tasks[t].resultId # 0 <=> tasks[t].status = Completed
        /\ Cardinality(ResultsOf(t)) = IF tasks[t].status = Completed THEN 1 ELSE 0

\* C19 (as stated): the results endpoint answers 200 for every workflow that is
\* completed or failed, 400 with the current status for every other existing
\* workflow, and 404 for a workflow that does not exist.
C19_ResultsWhenTerminal ==
    \A w \in Workflows : \A r \in GetResults(w) :
        IF w \notin DOMAIN workflows THEN r.status = 404
        ELSE IF Terminal(workflows[w].status) THEN r.status = 200
        ELSE r = [status |-> 400, workflowStatus |-> workflows[w].status]

\* C19 (amended): the results endpoint answers 200 for a completed workflow
\* only; for every other existing workflow, a failed one included, it answers
\* 400 with the current status; and 404 for a workflow that does not exist.
C19_ResultsWhenCompleted ==
    \A w \in Workflows : \A r \in GetResults(w) :
        IF w \notin DOMAIN workflows THEN r.status = 404
        ELSE IF workflows[w].status = WfCompleted THEN r.status = 200
        ELSE r = [status |-> 400, workflowStatus |-> workflows[w].status]

\* C19 witness: a failed workflow with its aggregate stored, answered with 400,
\* beside a completed workflow, answered with 200.
C19_Witness ==
    \E w, v \in DOMAIN workflows :
        /\ workflows[w].status = WfFailed
        /\ workflows[w].finalResult # Null
        /\ GetResults(w) = {[status |-> 400, workflowStatus |-> WfFailed]}
        /\ workflows[v].status = WfCompleted
        /\ \A r \in GetResults(v) : r.status = 200

\* the stepNumbers of the stored tasks of a workflow
StepsOf(w) == {t[2] : t \in TasksOf(w)}

\* the largest stepNumber of a workflow with tasks
LastStep(w) == CHOOSE s \in StepsOf(w) : \A u \in StepsOf(w) : u <= s

\* the response is 200 with a report that lists exactly the tasks before the
\* last step and counts them in summary.totalTasks
ListsAllButLast(w, r) ==
    /\ r.status = 200
    /\ r.finalResult.kind = "report"
    /\ Len(r.finalResult.tasks) = Cardinality(StepsOf(w)) - 1
    /\ {r.finalResult.tasks[i].stepNumber : i \in 1..Len(r.finalResult.tasks)}
          = StepsOf(w) \ {LastStep(w)}
    /\ r.finalResult.summary.totalTasks = Cardinality(StepsOf(w)) - 1

\* C20 (as stated): for a completed workflow whose last step is a
\* reportGeneration task, the finalResult of the results endpoint lists exactly
\* the tasks with a smaller stepNumber and summary.totalTasks is their number.
C20_ReportExcludesItself ==
    \A w \in DOMAIN workflows :
        (/\ workflows[w].status = WfCompleted
         /\ TasksOf(w) # {}
         /\ tasks[<<w, LastStep(w)>>].taskType = ReportGeneration) =>
            \A r \in GetResults(w) : ListsAllButLast(w, r)

\* C20 (amended): the same for a completed workflow whose last step is its
\* only reportGeneration task.
C20_OnlyReportIsLast ==
    \A w \in DOMAIN workflows :
        (/\ workflows[w].status = WfCompleted
         /\ ReportTasks(w) = {<<w, LastStep(w)>>}) =>
            \A r \in GetResults(w) : ListsAllButLast(w, r)

\* C20 witness: a completed workflow of three tasks, the last one its only
\* reportGeneration task, whose results response lists the two others.
C20_Witness ==
    \E w \in DOMAIN workflows :
        /\ workflows[w].status = WfCompleted
        /\ Cardinality(TasksOf(w)) = 3
        /\ ReportTasks(w) = {<<w, 3>>}
        /\ \A r \in GetResults(w) :
              /\ ListsAllButLast(w, r)
              /\ Len(r.finalResult.tasks) = 2

\* ---- C21 ------------------------------------------------------------------
HasPolygonAreaStep(def) ==
    \E i \in 1..Len(def.steps) : def.steps[i].taskType = PolygonArea

\* C21: a POST /analysis whose geoJson is not a polygon geometry (a Point), for
\* a workflow with a polygonArea step, is rejected at creation: no Workflow and
\* no Task row exists for such a call
C21_NonPolygonRejected ==
    \A w \in Workflows :
        (factory[w].geoJson = PointGeometry /\ HasPolygonAreaStep(factory[w].def))
            => (w \notin DOMAIN workflows /\ TasksOf(w) = {})

\* ---- C22 ------------------------------------------------------------------
\* C22: an iteration of the dispatcher (one load of the queued set) invokes
\* the runner on at most one task, whether that run returns or throws
C22_OneRunPerIteration == invocations <= 1

\* ---- C23 ------------------------------------------------------------------
\* the dispatcher hands the first task of an iteration to the runner
StartsFirstRun == StartsRunner /\ invocations = 0

\* t is stored queued and the dispatcher's test on its stored row does not find
\* it blocked
StoredQueuedUnblocked(t) ==
    /\ tasks[t].status = Queued
    /\ ~Blocked(LoadedEntity(t))

\* C23: the first task an iteration hands to the runner has the smallest
\* stepNumber among all tasks that are queued and unblocked at that moment,
\* whatever their workflow
C23_GlobalServiceOrder ==
    [][StartsFirstRun =>
          \A t \in DOMAIN tasks :
              StoredQueuedUnblocked(t) => task'.taskId[2] <= t[2]]_vars

\* the loaded candidates are in ascending order of stepNumber
SortedByStepNumber(list) ==
    \A i, j \in 1..Len(list) : i < j => list[i].taskId[2] <= list[j].taskId[2]

\* C23 (amended): the loaded set holds every task stored as queued at the load,
\* whatever its workflow, in ascending order of stepNumber; the dispatcher
\* skips a candidate only when its test finds it blocked, and the first task
\* of an iteration handed to the runner is the first candidate left, which has
\* the smallest stepNumber of the candidates not yet tested.
C23_ServiceOrderOfLoadedSet ==
    /\ [][(pc = "load" /\ pc' = "walk") =>
             /\ {queuedTasks'[i].taskId : i \in 1..Len(queuedTasks')}
                    = {t \in DOMAIN tasks : tasks[t].status = Queued}
             /\ SortedByStepNumber(queuedTasks')]_vars
    /\ [][(pc = "walk" /\ pc' = "walk" /\ queuedTasks' # queuedTasks) =>
             Blocked(Head(queuedTasks))]_vars
    /\ [][StartsFirstRun =>
             /\ task'.taskId = Head(queuedTasks).taskId
             /\ ~Blocked(Head(queuedTasks))
             /\ \A i \in 1..Len(queuedTasks) :
                    task'.taskId[2] <= queuedTasks[i].taskId[2]]_vars

\* the first run of an iteration is on a step of the second workflow while a
\* later step of the first workflow is queued and unblocked
C23_Witness ==
    /\ pc = "run"
    /\ invocations = 1
    /\ \E t \in DOMAIN tasks :
          /\ t[1] < task.taskId[1]
          /\ t[2] > task.taskId[2]
          /\ StoredQueuedUnblocked(t)

\* ---- C24 ------------------------------------------------------------------
\* the runner saves the Result row of the value the job returned
SavesResult == pc = "saveResult" /\ pc' = "saveCompleted"

\* C24: the Result row a completed task references holds the serialization of
\* the value the job returned, '{}' standing in only for null and undefined: a
\* returned 0, false or empty string is stored as itself
C24_ResultIsReturnValue ==
    [][SavesResult =>
          /\ task'.resultId = Len(results')
          /\ results'[Len(results')].taskId = task.taskId
          /\ results'[Len(results')].data
                = StringifyOrEmptyIfNullish(taskResult)]_vars

\* ---- C25 ------------------------------------------------------------------
\* the reconciler saves the workflow row
Reconciles == pc = "saveWorkflow" /\ pc' # "saveWorkflow"

\* the workflow entity a second run of the reconciler loads when no task has
\* changed since the first: the saved row with the same tasks
LoadedAgain ==
    [currentWorkflow EXCEPT
        !.status = workflows'[currentWorkflow.workflowId].status,
        !.finalResult = workflows'[currentWorkflow.workflowId].finalResult]

\* C25: the reconciler is idempotent: run once more on the same workflow with
\* no task transition in between, at the same or a later reading of the clock,
\* it leaves the workflow row, status and finalResult with its generatedAt, as
\* the first run left it
C25_ReconcilerIdempotent ==
    [][Reconciles =>
          \A instant \in now'..MaxClock :
              Reconciled(LoadedAgain, instant)
                  = workflows'[currentWorkflow.workflowId]]_vars

\* ---- C26 ------------------------------------------------------------------
\* the runner saves the task as failed
SavesFailed == pc = "saveFailed" /\ pc' # "saveFailed"

\* the error envelopes the job of a task type writes into task.output before
\* it throws
WrittenOnFailure(taskType) ==
    IF taskType = PolygonArea THEN {AreaError}
    ELSE IF taskType = ReportGeneration THEN {ErrorReport}
    ELSE FailureOutputs

\* C26: on the failure path the runner sets status to failed and progress to
\* null and nothing else: the output it persists is the envelope the job wrote
\* before throwing, or the stored value when the job wrote nothing; the
\* resultId stays as stored, no Result row is written and no other task row
\* is touched
C26_FailurePathFrame ==
    [][SavesFailed =>
          LET t == task.taskId IN
          /\ task' = [task EXCEPT !.status = Failed, !.progress = "null"]
          /\ tasks'[t].status = Failed
          /\ tasks'[t].progress = "null"
          /\ tasks'[t].output = task.output
          /\ tasks'[t].output \in
                WrittenOnFailure(task.taskType) \cup {tasks[t].output}
          /\ tasks'[t].resultId = tasks[t].resultId
          /\ tasks'[t].taskType = tasks[t].taskType
          /\ tasks'[t].geoJson = tasks[t].geoJson
          /\ \A u \in DOMAIN tasks \ {t} : tasks'[u] = tasks[u]
          /\ results' = results]_vars

\* a task has just been saved as failed with the envelope its job wrote, no
\* resultId and no Result row, beside a failed task whose job wrote nothing
C26_Witness ==
    /\ pc = "findWorkflow"
    /\ caughtError
    /\ tasks[task.taskId].status = Failed
    /\ tasks[task.taskId].output = AreaError
    /\ tasks[task.taskId].resultId = 0
    /\ ResultsOf(task.taskId) = {}
    /\ \E u \in DOMAIN tasks :
          /\ tasks[u].status = Failed
          /\ tasks[u].output = Null

\* ---- C27 ------------------------------------------------------------------
\* the dispatcher calls taskRunner.run on a reportGeneration task
RunsReport == StartsRunner /\ task'.taskType = ReportGeneration

\* ReportGenerationJob.run tests the preceding tasks
ReportChecksPreceding == pc = "job" /\ task.taskType = ReportGeneration

\* C27 (as stated): whenever the dispatcher runs a reportGeneration task, with
\* or without a dependsOn edge, no task of its workflow with a smaller
\* stepNumber is queued or in progress, and the report job's test of the
\* preceding tasks never fails
C27_ReportNeverPremature ==
    /\ [][RunsReport => ~EarlierSiblingPending(task'.taskId)]_vars
    /\ [][ReportChecksPreceding => pc' # "saveFailed"]_vars

\* C27 (amended): whenever the dispatcher runs a reportGeneration task loaded
\* without a dependsOn edge, no task of its workflow with a smaller stepNumber
\* is queued or in progress at the hand-off
C27_ReportWithoutDependsOn ==
    [][(RunsReport /\ task'.dependsOn = 0) =>
          ~EarlierSiblingPending(task'.taskId)]_vars

\* a reportGeneration task without a dependsOn edge is handed to the runner
\* after every earlier step of its workflow has ended
C27_Witness ==
    /\ pc = "run"
    /\ task.taskType = ReportGeneration
    /\ task.dependsOn = 0
    /\ \E b \in TasksOf(task.taskId[1]) : b[2] < task.taskId[2]
    /\ \A b \in TasksOf(task.taskId[1]) :
          b[2] < task.taskId[2] => tasks[b].status \in {Completed, Failed}

\* ---- C28 ------------------------------------------------------------------
\* the provisional tasks of w are saved, their dependsOn edges are not yet
DependenciesPending(w) == factory[w].pc = "saveDependencies"

\* the dispatcher holds a task of w: in its loaded list or in the runner
HeldByDispatcher(w) ==
    \/ \E i \in 1..Len(queuedTasks) : queuedTasks[i].taskId[1] = w
    \/ task.taskId[1] = w

\* the factory's second save of the tasks of w
SavesDependencies(w) ==
    factory[w].pc = "saveDependencies" /\ factory'[w].pc = "returned"

\* C28: workflow creation is atomic with respect to the dispatcher: the
\* dispatcher never loads or runs a task of a workflow whose dependsOn edges are
\* not yet persisted, and the factory's second save of the tasks never alters
\* a task the runner has already started
C28_CreationAtomic ==
    /\ [](\A w \in Workflows : DependenciesPending(w) => ~HeldByDispatcher(w))
    /\ [][\A w \in Workflows :
            SavesDependencies(w) =>
                \A t \in TasksOf(w) :
                    tasks[t].status # Queued => tasks'[t] = tasks[t]]_vars

\* ---- C29 ------------------------------------------------------------------
\* the response that carries the stored finalResult of w
StoredFinalResult(w) == [status |-> 200, finalResult |-> workflows[w].finalResult]

\* C29 (as stated): for every completed workflow, with or without a
\* reportGeneration task, the finalResult of the results endpoint is the value
\* stored in the workflow row's finalResult
C29_ReturnsStoredFinalResult ==
    \A w \in DOMAIN workflows :
        workflows[w].status = WfCompleted =>
            GetResults(w) = {StoredFinalResult(w)}

\* C29 (amended): for a completed workflow without a reportGeneration task
\* the finalResult of the results endpoint is the value stored in the workflow
\* row's finalResult; with reportGeneration tasks it is the output of one of
\* them when that output is set, and the stored value otherwise
C29_StoredWithoutReport ==
    \A w \in DOMAIN workflows :
        workflows[w].status = WfCompleted =>
            IF ReportTasks(w) = {}
            THEN GetResults(w) = {StoredFinalResult(w)}
            ELSE \A r \in GetResults(w) :
                    \E t \in ReportTasks(w) :
                        r = IF tasks[t].output # Null
                            THEN [status |-> 200, finalResult |-> tasks[t].output]
                            ELSE StoredFinalResult(w)

\* a completed workflow without a reportGeneration task is answered with its
\* stored aggregate, beside a completed workflow whose answer is the report of
\* its reportGeneration task and not the aggregate stored in its row
C29_Witness ==
    \E w, v \in DOMAIN workflows :
        /\ workflows[w].status = WfCompleted
        /\ ReportTasks(w) = {}
        /\ workflows[w].finalResult.kind = "aggregate"
        /\ GetResults(w) = {StoredFinalResult(w)}
        /\ workflows[v].status = WfCompleted
        /\ ReportTasks(v) # {}
        /\ workflows[v].finalResult.kind = "aggregate"
        /\ \A r \in GetResults(v) : r.finalResult.kind = "report"

\* ---- C30 ------------------------------------------------------------------
\* C30: for every failed task, whatever the shape of its output (null, a string
\* that is no JSON, an object with a message field, with only an error field,
\* with neither), the error of the reconciler's entry equals the error of the
\* report generator's entry: the message or error field when there is one,
\* 'Task failed' otherwise
C30_SameErrorString ==
    \A t \in DOMAIN tasks :
        tasks[t].status = Failed =>
            /\ AggregatedEntry(t[2], tasks[t]).error
                  = TaskReportEntry(t[2], tasks[t]).error
            /\ TaskReportEntry(t[2], tasks[t]).error
                  = IF HasMessage(tasks[t].output) THEN "message"
                    ELSE IF HasError(tasks[t].output) THEN "error"
                    ELSE "Task failed"

\* ---- C31 ------------------------------------------------------------------
\* b is queued for good: its workflow's creation has returned and b waits for
\* a failed task, or for a queued task that in turn waits for b, while the
\* dispatcher holds neither of the two and no candidate of the workflow that it
\* loaded before the dependsOn columns were saved
PermanentlyBlocked(b) ==
    /\ b \in DOMAIN tasks
    /\ factory[b[1]].pc = "returned"
    /\ tasks[b].status = Queued
    /\ tasks[b].dependsOn # 0
    /\ \A i \in DOMAIN queuedTasks :
          queuedTasks[i].taskId[1] = b[1] =>
              queuedTasks[i].dependsOn = tasks[queuedTasks[i].taskId].dependsOn
    /\ LET d == <<b[1], tasks[b].dependsOn>> IN
       /\ Running => task.taskId \notin {b, d}
       /\ \/ tasks[d].status = Failed
          \/ /\ tasks[d].status = Queued
             /\ \/ tasks[d].dependsOn = b[2]
                \/ tasks[d].dependsOn = 0 /\ b[2] < d[2]

\* C31: every task that is queued and unblocked, its workflow's creation
\* returned, is eventually in the hands of the runner, whatever the state of
\* the other workflows: a task of another workflow that stays blocked for good
\* (the queued dependent of a failed task, tasks that wait for each other) does
\* not keep the dispatcher from it.
C31_UnblockedEventuallyRun ==
    \A t \in Workflows \X (1..MaxIsolatedSteps) :
        QueuedUnblocked(t) ~> (Running /\ task.taskId = t)

\* C31 witness: the dispatcher hands a task to the runner that a task of
\* another workflow, blocked for good, stands ahead of in the order of the
\* loaded list.
C31_Witness ==
    /\ HandedToRunner
    /\ factory[task.taskId[1]].pc = "returned"
    /\ tasks[task.taskId].status = Queued
    /\ \E b \in DOMAIN tasks :
          /\ b[1] # task.taskId[1]
          /\ PermanentlyBlocked(b)
          /\ Before(b, task.taskId)
====
